---- MODULE Spec2Model ----
(***************************************************************************)
(* A model of mcp-server-automation: the Stack Reconciler                  *)
(* (deploy.py, DeployCommand._deploy_cloudformation_stack), the CLI        *)
(* pipeline (cli.py, config.py, BuildCommand.execute) and the Build Plan   *)
(* Resolver (build.py, BuildCommand._detect_package_info).                 *)
(*                                                                         *)
(* Four specifications share the module:                                   *)
(*   Spec / FairSpec  repeated reconcile calls against one backend stack   *)
(*   SpecCli          one CLI run: load config, validate, build, deploy    *)
(*   SpecResolve      the resolver applied to a bounded set of trees       *)
(*   SpecUnit         one direct call of a helper of BuildCommand          *)
(***************************************************************************)
EXTENDS Integers, Sequences, FiniteSets, TLC

VARIABLES
    \* ---- the CloudFormation backend (external collaborator) ----
    stack,          \* "Absent" | "Existing": whether the named stack exists
    outputs,        \* the Outputs list a describe of the stack returns
    \* ---- one call of _deploy_cloudformation_stack ----
    pc,             \* position in the call
    stack_exists,   \* local stack_exists (deploy.py:109,111)
    waiter,         \* local waiter: "unset", "None" or a waiter name
    attempts,       \* polls made by waiter.wait so far
    waitConfig,     \* the WaiterConfig handed to waiter.wait
    log,            \* backend calls of the current reconcile call, in order
    result,         \* the returned ALB URL, or None
    error,          \* the error the call ended with, or None
    calls,          \* number of reconcile calls started
    prev,           \* how the previous reconcile call ended
    \* ---- one CLI run (cli.py) ----
    cpc,            \* position in cli()
    cfg,            \* the parsed YAML document (config_data)
    mcp_config,     \* MCPConfig produced by ConfigLoader._parse_config
    now,            \* the wall clock, in seconds
    tagLog,         \* tag derivations performed in this run, in order
    builtImage,     \* image_tag handed to _build_docker_image
    pushedImage,    \* image_tag handed to _push_to_ecr
    deployImageUri, \* image_uri handed to DeployCommand.execute
    cliMessage,     \* the error cli() echoed or raised, or None
    workspace,      \* the temporary directory of execute: "none" | "held" | "released"
    ecrLog,         \* docker pushes _push_to_ecr made in this run, with their outcome
    \* ---- one resolution (build.py _detect_package_info) ----
    rpc,            \* "start" | "resolved" | "raised"
    tree,           \* the source tree under inspection
    command_override,
    package_info,   \* the returned build plan
    consulted,      \* the extractors resolution called, in order
    resolveError,   \* the error raised by resolution, or None
    \* ---- one direct call of a BuildCommand helper ----
    upc,            \* "call" | "returned" | "raised"
    unit,           \* the helper called and its arguments
    ret             \* the value it returned, or the exception it raised

rvars == <<stack, outputs, pc, stack_exists, waiter, attempts, waitConfig,
           log, result, error, calls, prev>>
xvars == <<workspace, ecrLog>>
cvars == <<cpc, cfg, mcp_config, now, tagLog, builtImage, pushedImage,
           deployImageUri, cliMessage, xvars>>
pvars == <<rpc, tree, command_override, package_info, consulted, resolveError>>
uvars == <<upc, unit, ret>>
tvars == <<pvars, uvars>>
vars == <<rvars, cvars, tvars>>

None == "None"

----------------------------------------------------------------------------
(* Bounds *)

\* reconcile calls made against the same backend in one behaviour
MaxCalls == 2
\* seconds the wall clock can advance during one CLI run
MaxClock == 1

(* Program constants *)

\* WaiterConfig Delay (seconds) and MaxAttempts
WaiterDelay == 30
WaiterMaxAttempts == 120

----------------------------------------------------------------------------
(* The backend's answers *)

Urls == {"http://alb-1", "http://alb-2"}

AlbOutput(u) == [OutputKey |-> "ALBUrl", OutputValue |-> u]
OtherOutput == [OutputKey |-> "ServiceArn", OutputValue |-> "arn:service"]

\* The Outputs lists a stack of this model can expose.
OutputChoices ==
    { <<>>, <<OtherOutput>> }
    \cup { <<AlbOutput(u)>> : u \in Urls }
    \cup { <<OtherOutput, AlbOutput(u)>> : u \in Urls }

\* Errors of a backend call that are botocore ClientError, and those that are not.
OtherClientErrors == {"AccessDenied"}
NonClientErrors == {"ConnectionError"}

Entry(op, arg, ans) == [op |-> op, arg |-> arg, ans |-> ans]

HasOp(l, op) == \E i \in DOMAIN l : l[i].op = op
CountOp(l, op) == Cardinality({i \in DOMAIN l : l[i].op = op})

----------------------------------------------------------------------------
(* deploy.py: _deploy_cloudformation_stack *)

ALBNotFound == "ALB URL not found in stack outputs"

\* A lookup that takes the first output whatever its key.
FirstOutputValue(outs) ==
    IF outs = <<>> THEN None ELSE outs[1].OutputValue

RECURSIVE ALBUrlOf(_)
\* for output in outputs: if output["OutputKey"] == "ALBUrl": return value
ALBUrlOf(outs) ==
    IF outs = <<>> THEN None
    ELSE IF outs[1].OutputKey = "ALBUrl" THEN outs[1].OutputValue
    ELSE ALBUrlOf(Tail(outs))

\* No WaiterConfig: waiter.wait has not been called.
NoWaitConfig == [Delay |-> 0, MaxAttempts |-> 0]

Fail(e) ==
    /\ pc' = "failed"
    /\ error' = e
    /\ result' = None

\* Entry of _deploy_cloudformation_stack: fresh locals, the backend untouched.
BeginCall ==
    /\ calls' = calls + 1
    /\ prev' = [pc |-> pc, result |-> result]
    /\ pc' = "check"
    /\ stack_exists' = FALSE
    /\ waiter' = "unset"
    /\ attempts' = 0
    /\ waitConfig' = NoWaitConfig
    /\ log' = <<>>
    /\ result' = None
    /\ error' = None
    /\ UNCHANGED <<stack, outputs>>

\* A caller invokes _deploy_cloudformation_stack.
Reconcile ==
    /\ pc \in {"idle", "done", "failed"}
    /\ calls < MaxCalls
    /\ BeginCall
    /\ UNCHANGED <<cvars, tvars>>

\* try: describe_stacks; stack_exists = True / except ClientError: False
DescribeInitial ==
    /\ pc = "check"
    /\ \/ /\ stack = "Existing"
          /\ log' = Append(log, Entry("describe_stacks", "", "ok"))
          /\ stack_exists' = TRUE
          /\ pc' = "mutate"
          /\ UNCHANGED <<result, error>>
       \/ /\ stack = "Absent"
          /\ log' = Append(log, Entry("describe_stacks", "", "NotFound"))
          /\ stack_exists' = FALSE
          /\ pc' = "mutate"
          /\ UNCHANGED <<result, error>>
       \/ \E e \in OtherClientErrors :
          /\ log' = Append(log, Entry("describe_stacks", "", e))
          /\ stack_exists' = FALSE
          /\ pc' = "mutate"
          /\ UNCHANGED <<result, error>>
       \/ \E e \in NonClientErrors :
          /\ log' = Append(log, Entry("describe_stacks", "", e))
          /\ Fail(e)
          /\ UNCHANGED stack_exists
    /\ UNCHANGED <<stack, outputs, waiter, attempts, waitConfig, calls, prev, cvars, tvars>>

\* An update branch that treats every ClientError as "no updates".
UpdateStackSwallow ==
    /\ pc = "mutate"
    /\ stack_exists
    /\ \/ /\ \E o \in OutputChoices : outputs' = o
          /\ log' = Append(log, Entry("update_stack", "", "ok"))
          /\ waiter' = "stack_update_complete"
          /\ pc' = "waitcheck"
          /\ UNCHANGED <<result, error>>
       \/ \E e \in {"NoUpdates"} \cup OtherClientErrors :
          /\ log' = Append(log, Entry("update_stack", "", e))
          /\ waiter' = "None"
          /\ pc' = "waitcheck"
          /\ UNCHANGED <<outputs, result, error>>
       \/ \E e \in NonClientErrors :
          /\ log' = Append(log, Entry("update_stack", "", e))
          /\ Fail(e)
          /\ UNCHANGED <<outputs, waiter>>
    /\ UNCHANGED <<stack, stack_exists, attempts, waitConfig, calls, prev, cvars, tvars>>

\* An update branch that keeps the update waiter on "no updates".
UpdateStackAlwaysWait ==
    /\ pc = "mutate"
    /\ stack_exists
    /\ \/ /\ \E o \in OutputChoices : outputs' = o
          /\ log' = Append(log, Entry("update_stack", "", "ok"))
          /\ waiter' = "stack_update_complete"
          /\ pc' = "waitcheck"
          /\ UNCHANGED <<result, error>>
       \/ /\ log' = Append(log, Entry("update_stack", "", "NoUpdates"))
          /\ waiter' = "stack_update_complete"
          /\ pc' = "waitcheck"
          /\ UNCHANGED <<outputs, result, error>>
       \/ \E e \in OtherClientErrors \cup NonClientErrors :
          /\ log' = Append(log, Entry("update_stack", "", e))
          /\ Fail(e)
          /\ UNCHANGED <<outputs, waiter>>
    /\ UNCHANGED <<stack, stack_exists, attempts, waitConfig, calls, prev, cvars, tvars>>

\* if stack_exists: update_stack; "No updates are to be performed" -> waiter = None
UpdateStack ==
    /\ pc = "mutate"
    /\ stack_exists
    /\ \/ /\ \E o \in OutputChoices : outputs' = o
          /\ log' = Append(log, Entry("update_stack", "", "ok"))
          /\ waiter' = "stack_update_complete"
          /\ pc' = "waitcheck"
          /\ UNCHANGED <<result, error>>
       \/ /\ log' = Append(log, Entry("update_stack", "", "NoUpdates"))
          /\ waiter' = "None"
          /\ pc' = "waitcheck"
          /\ UNCHANGED <<outputs, result, error>>
       \/ \E e \in OtherClientErrors \cup NonClientErrors :
          /\ log' = Append(log, Entry("update_stack", "", e))
          /\ Fail(e)
          /\ UNCHANGED <<outputs, waiter>>
    /\ UNCHANGED <<stack, stack_exists, attempts, waitConfig, calls, prev, cvars, tvars>>

\* A create branch that takes the update waiter.
CreateStackWrongWaiter ==
    /\ pc = "mutate"
    /\ ~stack_exists
    /\ \/ /\ stack = "Absent"
          /\ stack' = "Existing"
          /\ \E o \in OutputChoices : outputs' = o
          /\ log' = Append(log, Entry("create_stack", "", "ok"))
          /\ waiter' = "stack_update_complete"
          /\ pc' = "waitcheck"
          /\ UNCHANGED <<result, error>>
       \/ \E e \in (IF stack = "Existing" THEN {"AlreadyExists"} ELSE {})
                   \cup OtherClientErrors \cup NonClientErrors :
          /\ log' = Append(log, Entry("create_stack", "", e))
          /\ Fail(e)
          /\ UNCHANGED <<stack, outputs, waiter>>
    /\ UNCHANGED <<stack_exists, attempts, waitConfig, calls, prev, cvars, tvars>>

\* else: create_stack; waiter = get_waiter("stack_create_complete")
CreateStack ==
    /\ pc = "mutate"
    /\ ~stack_exists
    /\ \/ /\ stack = "Absent"
          /\ stack' = "Existing"
          /\ \E o \in OutputChoices : outputs' = o
          /\ log' = Append(log, Entry("create_stack", "", "ok"))
          /\ waiter' = "stack_create_complete"
          /\ pc' = "waitcheck"
          /\ UNCHANGED <<result, error>>
       \/ \E e \in (IF stack = "Existing" THEN {"AlreadyExists"} ELSE {})
                   \cup OtherClientErrors \cup NonClientErrors :
          /\ log' = Append(log, Entry("create_stack", "", e))
          /\ Fail(e)
          /\ UNCHANGED <<stack, outputs, waiter>>
    /\ UNCHANGED <<stack_exists, attempts, waitConfig, calls, prev, cvars, tvars>>

\* if waiter: waiter.wait(StackName, WaiterConfig={Delay: 30, MaxAttempts: 120})
StartWait ==
    /\ pc = "waitcheck"
    /\ IF waiter # "None"
       THEN /\ log' = Append(log, Entry("wait", waiter, "pending"))
            /\ waitConfig' = [Delay |-> WaiterDelay, MaxAttempts |-> WaiterMaxAttempts]
            /\ attempts' = 0
            /\ pc' = "wait"
       ELSE /\ pc' = "final"
            /\ UNCHANGED <<log, waitConfig, attempts>>
    /\ UNCHANGED <<stack, outputs, stack_exists, waiter, result, error, calls, prev, cvars, tvars>>

SetLastAns(l, ans) == [l EXCEPT ![Len(l)].ans = ans]

\* A poll that starts over when its attempts are used up.
PollUnbounded ==
    /\ pc = "wait"
    /\ \/ /\ attempts' = IF attempts + 1 >= waitConfig.MaxAttempts THEN 1
                         ELSE attempts + 1
          /\ UNCHANGED <<pc, log, result, error>>
       \/ /\ attempts' = attempts + 1
          /\ attempts < waitConfig.MaxAttempts
          /\ log' = SetLastAns(log, "ok")
          /\ pc' = "final"
          /\ UNCHANGED <<result, error>>
       \/ /\ attempts' = attempts + 1
          /\ attempts < waitConfig.MaxAttempts
          /\ log' = SetLastAns(log, "WaiterFailure")
          /\ Fail("WaiterFailure")
    /\ UNCHANGED <<stack, outputs, stack_exists, waiter, waitConfig, calls, prev, cvars, tvars>>

\* One poll of waiter.wait: the operation is complete, has failed, or is still
\* in progress; in progress at the last permitted attempt is a timeout.
Poll ==
    /\ pc = "wait"
    /\ attempts < waitConfig.MaxAttempts
    /\ attempts' = attempts + 1
    /\ \/ /\ log' = SetLastAns(log, "ok")
          /\ pc' = "final"
          /\ UNCHANGED <<result, error>>
       \/ /\ log' = SetLastAns(log, "WaiterFailure")
          /\ Fail("WaiterFailure")
       \/ /\ attempts + 1 < waitConfig.MaxAttempts
          /\ UNCHANGED <<pc, log, result, error>>
       \/ /\ attempts + 1 >= waitConfig.MaxAttempts
          /\ log' = SetLastAns(log, "MaxAttemptsExceeded")
          /\ Fail("MaxAttemptsExceeded")
    /\ UNCHANGED <<stack, outputs, stack_exists, waiter, waitConfig, calls, prev, cvars, tvars>>

\* stack_info = describe_stacks(...); return the ALBUrl output or raise
FinalDescribe ==
    /\ pc = "final"
    /\ \/ /\ log' = Append(log, Entry("describe_stacks", "", "ok"))
          /\ IF ALBUrlOf(outputs) # None
             THEN /\ result' = ALBUrlOf(outputs)
                  /\ pc' = "done"
                  /\ UNCHANGED error
             ELSE Fail(ALBNotFound)
       \/ \E e \in OtherClientErrors \cup NonClientErrors :
          /\ log' = Append(log, Entry("describe_stacks", "", e))
          /\ Fail(e)
    /\ UNCHANGED <<stack, outputs, stack_exists, waiter, attempts, waitConfig,
                   calls, prev, cvars, tvars>>

\* The steps of a reconcile call in progress.
CallStep ==
    \/ DescribeInitial
    \/ UpdateStack
    \/ CreateStack
    \/ StartWait
    \/ Poll
    \/ FinalDescribe

InitBackend ==
    /\ stack \in {"Absent", "Existing"}
    /\ outputs \in IF stack = "Absent" THEN {<<>>} ELSE OutputChoices

InitCall ==
    /\ pc = "idle"
    /\ stack_exists = FALSE
    /\ waiter = "unset"
    /\ attempts = 0
    /\ waitConfig = NoWaitConfig
    /\ log = <<>>
    /\ result = None
    /\ error = None
    /\ calls = 0
    /\ prev = [pc |-> "idle", result |-> None]

IdleCli ==
    /\ cpc = "off"
    /\ cfg = None
    /\ mcp_config = None
    /\ now = 0
    /\ tagLog = <<>>
    /\ builtImage = None
    /\ pushedImage = None
    /\ deployImageUri = None
    /\ cliMessage = None
    /\ workspace = "none"
    /\ ecrLog = <<>>

IdleUnit ==
    /\ upc = "off"
    /\ unit = None
    /\ ret = None

IdleResolve ==
    /\ rpc = "off"
    /\ tree = None
    /\ command_override = None
    /\ package_info = None
    /\ consulted = <<>>
    /\ resolveError = None
    /\ IdleUnit

Init == InitBackend /\ InitCall /\ IdleCli /\ IdleResolve

Next ==
    \/ Reconcile
    \/ DescribeInitial
    \/ UpdateStack
    \/ CreateStack
    \/ StartWait
    \/ Poll
    \/ FinalDescribe

Spec == Init /\ [][Next]_vars

\* A call in progress always takes its next step: the program is sequential
\* and every backend call returns or raises.
FairSpec == Init /\ [][Next]_vars /\ WF_vars(CallStep)

----------------------------------------------------------------------------
(* Claims about the Stack Reconciler, checked under Spec and FairSpec *)

Mutations(l) == CountOp(l, "create_stack") + CountOp(l, "update_stack")

\* The call has got past its create-or-update step.
PastMutate ==
    \/ pc \in {"waitcheck", "wait", "final", "done"}
    \/ pc = "failed" /\ Len(log) >= 2

NoAlbKey(outs) == \A i \in DOMAIN outs : outs[i].OutputKey # "ALBUrl"

\* C1: a reconcile call that gets past its initial describe issues exactly one
\* mutating call, chosen by that describe: create_stack then a wait for
\* stack_create_complete when the describe reported the stack absent,
\* update_stack then a wait for stack_update_complete when it reported the
\* stack (no wait when the backend answers "no updates"). Create and update
\* are never both issued and a wait is never for the other operation.
C1_OneMutationChosenByDescribe ==
    /\ Mutations(log) <= 1
    /\ PastMutate =>
          /\ Mutations(log) = 1
          /\ log[1].op = "describe_stacks"
          /\ log[2].op \in {"create_stack", "update_stack"}
          /\ log[1].ans = "NotFound" => log[2].op = "create_stack"
          /\ log[1].ans = "ok" => log[2].op = "update_stack"
          /\ (pc \in {"final", "done"} /\ log[2].ans = "ok") =>
                /\ Len(log) >= 3
                /\ log[3].op = "wait"
                /\ log[3].ans = "ok"
    /\ \A i \in DOMAIN log :
          log[i].op = "wait" =>
             /\ i = 3
             /\ log[2].ans = "ok"
             /\ log[2].op = "create_stack" => log[i].arg = "stack_create_complete"
             /\ log[2].op = "update_stack" => log[i].arg = "stack_update_complete"

\* C1 witness: a call that found the stack absent created it, waited for the
\* creation and returned.
C1_Witness ==
    /\ pc = "done"
    /\ log[1].ans = "NotFound"
    /\ log[2] = Entry("create_stack", "", "ok")
    /\ log[3] = Entry("wait", "stack_create_complete", "ok")

\* C2: when a reconcile call that returned an ALB URL is followed by a call
\* whose update the backend answers with "no updates", the second call returns
\* the same ALB URL, invokes no waiter and issues no create.
C2_Idempotent ==
    ( /\ calls >= 2
      /\ prev.pc = "done"
      /\ pc = "done"
      /\ \E i \in DOMAIN log : log[i].op = "update_stack" /\ log[i].ans = "NoUpdates" )
    => /\ result = prev.result
       /\ ~HasOp(log, "wait")
       /\ ~HasOp(log, "create_stack")
       /\ attempts = 0

\* C2 witness: the second of two successful calls was a no-op update.
C2_Witness ==
    /\ calls = 2
    /\ prev.pc = "done"
    /\ pc = "done"
    /\ log[2] = Entry("update_stack", "", "NoUpdates")
    /\ result = prev.result
    /\ result \in Urls

\* C3 (as claimed): when the initial describe fails with an error other than
\* "stack not found", the call issues neither create_stack nor update_stack.
C3_DescribeErrorIsFatal ==
    ( /\ Len(log) >= 1
      /\ log[1].op = "describe_stacks"
      /\ log[1].ans \notin {"ok", "NotFound"} )
    => /\ ~HasOp(log, "create_stack")
       /\ ~HasOp(log, "update_stack")

\* C4: a failing create_stack, update_stack (other than "no updates") or wait
\* ends the call with that error: it is the last backend call of the call, no
\* ALB URL is returned, and create, update and wait are each invoked at most
\* once per call.
C4_FailureAborts ==
    /\ \A i \in DOMAIN log :
          ( /\ log[i].op \in {"create_stack", "update_stack", "wait"}
            /\ log[i].ans \notin {"ok", "NoUpdates", "pending"} )
          => /\ pc = "failed"
             /\ i = Len(log)
             /\ result = None
             /\ error = log[i].ans
    /\ CountOp(log, "create_stack") <= 1
    /\ CountOp(log, "update_stack") <= 1
    /\ CountOp(log, "wait") <= 1

\* C4 witness: an update was refused with an error other than "no updates".
C4_Witness ==
    /\ pc = "failed"
    /\ Len(log) = 2
    /\ log[2] = Entry("update_stack", "", "AccessDenied")
    /\ error = "AccessDenied"

\* C5: a call returns only after a describe issued after the mutating call and
\* its wait, and the value returned is the value of the output keyed ALBUrl of
\* the stack as that describe saw it; when that describe succeeds and the
\* stack has no such output the call fails with "ALB URL not found in stack
\* outputs" and returns nothing.
C5_FreshDescribeALBUrl ==
    /\ pc = "done" =>
          /\ Len(log) >= 3
          /\ log[Len(log)] = Entry("describe_stacks", "", "ok")
          /\ \A i \in DOMAIN log : log[i].op = "wait" => (i < Len(log) /\ log[i].ans = "ok")
          /\ result # None
          /\ \E i \in DOMAIN outputs :
                /\ outputs[i].OutputKey = "ALBUrl"
                /\ outputs[i].OutputValue = result
    /\ (pc = "failed" /\ error = ALBNotFound) =>
          /\ Len(log) >= 3
          /\ log[Len(log)] = Entry("describe_stacks", "", "ok")
          /\ NoAlbKey(outputs)
          /\ result = None
    /\ ( /\ pc \in {"done", "failed"}
         /\ Len(log) >= 3
         /\ log[Len(log)] = Entry("describe_stacks", "", "ok")
         /\ NoAlbKey(outputs) )
       => (pc = "failed" /\ error = ALBNotFound)

\* C5 witness: an update went through, the wait succeeded, and the fresh
\* describe found no ALBUrl output.
C5_Witness ==
    /\ pc = "failed"
    /\ error = ALBNotFound
    /\ log[2] = Entry("update_stack", "", "ok")
    /\ log[3] = Entry("wait", "stack_update_complete", "ok")
    /\ outputs = <<OtherOutput>>

InCall == pc \in {"check", "mutate", "waitcheck", "wait", "final"}

\* C6: every reconcile call terminates; the wait polls with the same policy
\* for create and for update (every 30 seconds, at most 120 attempts) and a
\* wait whose attempts are used up ends the call in failure.
C6_Terminates ==
    /\ [](pc = "wait" =>
             /\ waitConfig = [Delay |-> 30, MaxAttempts |-> 120]
             /\ attempts < waitConfig.MaxAttempts)
    /\ [](attempts <= 120)
    /\ []((Len(log) >= 3 /\ log[3].ans = "MaxAttemptsExceeded") =>
             (pc = "failed" /\ attempts = 120))
    /\ (InCall ~> (pc \in {"done", "failed"}))

\* C6 witness: a wait for an update used all its attempts and the call failed.
C6_Witness ==
    /\ pc = "failed"
    /\ attempts = WaiterMaxAttempts
    /\ log[3] = Entry("wait", "stack_update_complete", "MaxAttemptsExceeded")

----------------------------------------------------------------------------
(* Strings the pipeline takes apart are sequences of characters; a path     *)
(* ("a/b/c") is the sequence of its "/"-separated segments.                *)

S_repo == <<"r", "e", "p", "o">>
S_owner == <<"o", "w", "n", "e", "r">>
S_foo == <<"f", "o", "o">>
S_dev == <<"d", "e", "v">>
S_registry == <<"r", "e", "g", "i", "s", "t", "r", "y">>
S_team == <<"t", "e", "a", "m">>
S_None == <<"N", "o", "n", "e">>
S_mcp_local == <<"m", "c", "p", "-", "l", "o", "c", "a", "l">>
S_mcp_servers == <<"m", "c", "p", "-", "s", "e", "r", "v", "e", "r", "s">>
S_account_ecr == <<"a", "c", "c", "t", ".", "d", "k", "r", ".", "e", "c", "r">>
S_nocommit == <<"n", "o", "c", "o", "m", "m", "i", "t">>
S_latest == <<"l", "a", "t", "e", "s", "t">>
S_v1 == <<"v", "1">>

\* A commit sha as the commit-lookup endpoint returns it (shortened here).
Sha1 == <<"a", "1", "b", "2", "c", "3", "d", "4", "e", "5">>

Last(q) == q[Len(q)]
Front(q) == SubSeq(q, 1, Len(q) - 1)
\* s[:n]
Take(q, n) == SubSeq(q, 1, IF n < Len(q) THEN n ELSE Len(q))

----------------------------------------------------------------------------
(* config.py: tags, BuildConfig and ConfigLoader._parse_config *)

\* A tag: a literal one from the configuration, or <hash>[-<branch>]-<timestamp>.
NoTag == [kind |-> "none", text |-> <<>>, hash |-> <<>>, branch |-> <<>>, ts |-> 0]
LiteralTag(t) == [kind |-> "literal", text |-> t, hash |-> <<>>, branch |-> <<>>, ts |-> 0]
DerivedTag(h, b, t) == [kind |-> "derived", text |-> <<>>, hash |-> h, branch |-> b, ts |-> t]

\* An image coordinate "<path>:<tag>".
Image(path, tag) == [path |-> path, tag |-> tag]
NoImage == Image(<<>>, NoTag)

\* Answers of the commit-lookup endpoint: 200 with a sha, 200 with a body
\* that has no "sha" (KeyError), another status, or an exception of the
\* request (status 0).
LookupAnswers ==
    { [status |-> 200, has_sha |-> TRUE, sha |-> Sha1],
      [status |-> 200, has_sha |-> FALSE, sha |-> <<>>],
      [status |-> 404, has_sha |-> FALSE, sha |-> <<>>],
      [status |-> 0, has_sha |-> FALSE, sha |-> <<>>] }

\* ConfigLoader._generate_dynamic_tag (url: the path after https://github.com/)
GenerateDynamicTag(url, branch, answer, t) ==
    LET git_hash == IF Len(url) >= 2 /\ answer.status = 200 /\ answer.has_sha
                    THEN Take(answer.sha, 8)
                    ELSE S_nocommit
    IN DerivedTag(git_hash, branch, t)

\* Whether tag derivation sends the commit lookup at all.
LookupSent(url) == Len(url) >= 2

RECURSIVE RStrip(_, _)
\* str.rstrip(chars): drop trailing characters that are in chars
RStrip(q, chars) ==
    IF q # <<>> /\ Last(q) \in chars THEN RStrip(Front(q), chars) ELSE q

\* ConfigLoader._generate_image_name, without a subfolder
GenerateImageName(url) == RStrip(Last(url), {".", "g", "i", "t"})

\* ConfigLoader._generate_default_ecr_repository
DefaultEcrRepository == <<S_account_ecr, S_mcp_servers>>

ImageConfig(repository, tag) == [present |-> TRUE, repository |-> repository, tag |-> tag]
NoImageConfig == [present |-> FALSE, repository |-> <<>>, tag |-> NoTag]

\* BuildConfig.image_uri
image_uri(b) ==
    IF b.image.present /\ b.image.repository # <<>>
    THEN Image(b.image.repository,
               IF b.image.tag.kind = "none" THEN LiteralTag(S_latest) ELSE b.image.tag)
    ELSE NoImage

\* BuildConfig.image_name
image_name(b) ==
    IF b.image.present /\ b.image.repository # <<>>
    THEN Last(b.image.repository)
    ELSE S_None

\* BuildConfig.ecr_repository (<<>> stands for None)
ecr_repository(b) ==
    IF b.image.present /\ b.image.repository # <<>> /\ Len(b.image.repository) >= 2
    THEN Front(b.image.repository)
    ELSE <<>>

\* The build section of _parse_config, given the lookup answer and the clock
\* its tag derivation sees.
ParseBuild(bd, answer, t) ==
    [ github_url |-> bd.github_url,
      branch |-> bd.branch,
      push_to_ecr |-> bd.push_to_ecr,
      image |->
        IF bd.image.present
        THEN IF bd.image.repository # <<>>
             THEN ImageConfig(bd.image.repository,
                              IF bd.image.tag.kind = "none" THEN LiteralTag(S_latest)
                              ELSE bd.image.tag)
             ELSE NoImageConfig
        ELSE IF bd.push_to_ecr
             THEN ImageConfig(DefaultEcrRepository \o <<GenerateImageName(bd.github_url)>>,
                              GenerateDynamicTag(bd.github_url, bd.branch, answer, t))
             ELSE NoImageConfig ]

\* Whether _parse_config derives a tag for this build section.
ParseDerivesTag(bd) == ~bd.image.present /\ bd.push_to_ecr

----------------------------------------------------------------------------
(* The configurations a run is started with *)

GithubUrls == { <<S_owner, S_repo>>, <<S_owner>> }

ImageSections ==
    { [present |-> FALSE, repository |-> <<>>, tag |-> NoTag],
      [present |-> TRUE, repository |-> <<>>, tag |-> NoTag],
      [present |-> TRUE, repository |-> <<S_foo>>, tag |-> NoTag],
      [present |-> TRUE, repository |-> <<S_registry, <<>> >>, tag |-> NoTag],
      [present |-> TRUE, repository |-> <<S_registry, S_team, S_foo>>, tag |-> NoTag],
      [present |-> TRUE, repository |-> <<S_registry, S_team, S_foo>>,
       tag |-> LiteralTag(S_v1)] }

BuildSections ==
    [ github_url : GithubUrls, branch : {<<>>, S_dev}, push_to_ecr : BOOLEAN,
      image : ImageSections ]

Subnets(n) == [i \in 1..n |-> "subnet"]

DeployValid ==
    [ enabled |-> TRUE, service_name |-> "svc", cluster_name |-> "cluster",
      vpc_id |-> "vpc", alb_subnet_ids |-> Subnets(2), ecs_subnet_ids |-> Subnets(1) ]

\* "" and <<>> stand for a key that is missing (None).
DeploySections ==
    { DeployValid,
      [DeployValid EXCEPT !.enabled = FALSE],
      [DeployValid EXCEPT !.service_name = ""],
      [DeployValid EXCEPT !.cluster_name = ""],
      [DeployValid EXCEPT !.vpc_id = ""],
      [DeployValid EXCEPT !.alb_subnet_ids = <<>>],
      [DeployValid EXCEPT !.alb_subnet_ids = Subnets(1)],
      [DeployValid EXCEPT !.ecs_subnet_ids = <<>>] }

Configs ==
    [ has_build : {TRUE}, has_deploy : BOOLEAN, build : BuildSections,
      deploy : DeploySections ]
    \cup { [ has_build |-> FALSE, has_deploy |-> TRUE,
             build |-> CHOOSE b \in BuildSections : TRUE, deploy |-> DeployValid ] }

DeployEnabled(c) == c.has_deploy /\ c.deploy.enabled

----------------------------------------------------------------------------
(* cli.py: cli(), and build.py: BuildCommand.execute *)

Crash(msg) ==
    /\ cpc' = "crashed"
    /\ cliMessage' = msg

Reject(msg) ==
    /\ cpc' = "rejected"
    /\ cliMessage' = msg

\* The wall clock advances while a step that reads it is still to come.
Tick ==
    /\ cpc \in {"load", "validate", "execute", "fetch", "dockerfile", "tag"}
    /\ now < MaxClock
    /\ now' = now + 1
    /\ UNCHANGED <<cpc, cfg, mcp_config, tagLog, builtImage, pushedImage,
                   deployImageUri, cliMessage, xvars, rvars, tvars>>

\* mcp_config = ConfigLoader.load_config(config); if not mcp_config.build: return
LoadConfig ==
    /\ cpc = "load"
    /\ \/ /\ ~cfg.has_build
          /\ mcp_config' = cfg
          /\ Reject("Error: No 'build' section found in configuration file")
          /\ UNCHANGED tagLog
       \/ /\ cfg.has_build
          /\ ~ParseDerivesTag(cfg.build)
          /\ mcp_config' = [cfg EXCEPT !.build = ParseBuild(cfg.build, CHOOSE a \in LookupAnswers : TRUE, now)]
          /\ cpc' = "validate"
          /\ UNCHANGED <<tagLog, cliMessage>>
       \/ /\ cfg.has_build
          /\ ParseDerivesTag(cfg.build)
          /\ \E a \in LookupAnswers :
                /\ mcp_config' = [cfg EXCEPT !.build = ParseBuild(cfg.build, a, now)]
                /\ tagLog' = Append(tagLog,
                      [site |-> "config",
                       sent |-> LookupSent(cfg.build.github_url),
                       tag |-> GenerateDynamicTag(cfg.build.github_url, cfg.build.branch, a, now)])
          /\ cpc' = "validate"
          /\ UNCHANGED cliMessage
       \/ /\ cfg.has_build
          /\ ParseDerivesTag(cfg.build)
          /\ mcp_config' = cfg
          /\ Crash("sts.get_caller_identity failed")
          /\ UNCHANGED tagLog
    /\ UNCHANGED <<cfg, now, builtImage, pushedImage, deployImageUri, xvars, rvars, tvars>>

\* Validation without the count of ALB subnets.
ValidationErrorNoAlbCount(c) ==
    LET b == c.build
        d == c.deploy
    IN IF DeployEnabled(c) /\ ~b.push_to_ecr
       THEN "Error: deploy.enabled requires build.push_to_ecr to be true"
       ELSE IF DeployEnabled(c)
               /\ (d.service_name = "" \/ d.cluster_name = "" \/ d.vpc_id = "")
       THEN "Error: deploy.enabled requires service_name, cluster_name, and vpc_id"
       ELSE IF DeployEnabled(c)
               /\ (d.alb_subnet_ids = <<>> \/ d.ecs_subnet_ids = <<>>)
       THEN "Error: deploy.enabled requires both alb_subnet_ids and ecs_subnet_ids"
       ELSE IF b.push_to_ecr /\ ecr_repository(b) = <<>>
       THEN "Error: ecr_repository is required when push_to_ecr is true"
       ELSE None

\* The first deployment or build requirement that is not met, or None.
ValidationError(c) ==
    LET b == c.build
        d == c.deploy
    IN IF DeployEnabled(c) /\ ~b.push_to_ecr
       THEN "Error: deploy.enabled requires build.push_to_ecr to be true"
       ELSE IF DeployEnabled(c)
               /\ (d.service_name = "" \/ d.cluster_name = "" \/ d.vpc_id = "")
       THEN "Error: deploy.enabled requires service_name, cluster_name, and vpc_id"
       ELSE IF DeployEnabled(c)
               /\ (d.alb_subnet_ids = <<>> \/ d.ecs_subnet_ids = <<>>)
       THEN "Error: deploy.enabled requires both alb_subnet_ids and ecs_subnet_ids"
       ELSE IF DeployEnabled(c) /\ Len(d.alb_subnet_ids) < 2
       THEN "Error: deploy.enabled requires at least 2 ALB subnet IDs for load balancer"
       ELSE IF DeployEnabled(c) /\ Len(d.ecs_subnet_ids) < 1
       THEN "Error: deploy.enabled requires at least 1 ECS subnet ID for tasks"
       ELSE IF b.push_to_ecr /\ ecr_repository(b) = <<>>
       THEN "Error: ecr_repository is required when push_to_ecr is true"
       ELSE None

\* Validate deployment requirements, then build requirements.
Validate ==
    /\ cpc = "validate"
    /\ IF ValidationError(mcp_config) # None
       THEN Reject(ValidationError(mcp_config))
       ELSE cpc' = "execute" /\ UNCHANGED cliMessage
    /\ UNCHANGED <<cfg, mcp_config, now, tagLog, builtImage, pushedImage,
                   deployImageUri, xvars, rvars, tvars>>

\* build_cmd = BuildCommand() (docker.from_env()), then build_cmd.execute(...)
\* enters "with tempfile.TemporaryDirectory() as temp_dir:"
EnterExecute ==
    /\ cpc = "execute"
    /\ \/ /\ workspace' = "held"
          /\ cpc' = "fetch"
          /\ UNCHANGED cliMessage
       \/ /\ Crash("docker.from_env failed")
          /\ UNCHANGED workspace
    /\ UNCHANGED <<cfg, mcp_config, now, tagLog, builtImage, pushedImage,
                   deployImageUri, ecrLog, rvars, tvars>>

\* An exception inside the with block: the temporary directory is removed on
\* the way out and the exception leaves cli().
CrashInWorkspace(msg) ==
    /\ Crash(msg)
    /\ workspace' = "released"

\* Step 1: _fetch_mcp_server
FetchMcpServer ==
    /\ cpc = "fetch"
    /\ \/ /\ Len(mcp_config.build.github_url) # 2
          /\ CrashInWorkspace("Invalid GitHub URL format")
       \/ /\ Len(mcp_config.build.github_url) = 2
          /\ cpc' = "dockerfile"
          /\ UNCHANGED <<cliMessage, workspace>>
       \/ /\ Len(mcp_config.build.github_url) = 2
          /\ CrashInWorkspace("fetch failed")
    /\ UNCHANGED <<cfg, mcp_config, now, tagLog, builtImage, pushedImage,
                   deployImageUri, ecrLog, rvars, tvars>>

\* Step 2: _generate_dockerfile and writing the Dockerfile
GenerateDockerfile ==
    /\ cpc = "dockerfile"
    /\ \/ cpc' = "tag" /\ UNCHANGED <<cliMessage, workspace>>
       \/ CrashInWorkspace("dockerfile generation failed")
    /\ UNCHANGED <<cfg, mcp_config, now, tagLog, builtImage, pushedImage,
                   deployImageUri, ecrLog, rvars, tvars>>

Digits == <<"0", "1", "2", "3", "4", "5", "6", "7", "8", "9">>

\* datetime.now().strftime("%Y%m%d-%H%M%S"), the clock counting seconds from
\* 2025-01-01 00:00:00: every field is zero-padded to its width.
Strftime(t) ==
    <<"2", "0", "2", "5", "0", "1", "0", "1", "-", "0", "0", "0", "0">>
    \o <<Digits[((t \div 10) % 10) + 1], Digits[(t % 10) + 1]>>

\* A tag whose commit lookup is never trusted: the sha is cut whatever the
\* answer was.
ImageTagIgnoresStatus(url, branch, answer, t) ==
    DerivedTag(Take(answer.sha, 8), branch, t)

\* BuildCommand._generate_image_tag
GenerateImageTagOf(url, branch, answer, t) ==
    LET git_hash == IF Len(url) >= 2 /\ answer.status = 200 /\ answer.has_sha
                    THEN Take(answer.sha, 8)
                    ELSE S_nocommit
    IN DerivedTag(git_hash, branch, t)

\* The timestamp ahead of the branch.
TagTextBranchLast(tag) ==
    tag.hash \o <<"-">> \o Strftime(tag.ts)
    \o (IF tag.branch # <<>> THEN <<"-">> \o tag.branch ELSE <<>>)

\* The string _generate_image_tag returns:
\* f"{git_hash}-{branch}-{timestamp}" if branch else f"{git_hash}-{timestamp}"
TagText(tag) ==
    IF tag.branch # <<>>
    THEN tag.hash \o <<"-">> \o tag.branch \o <<"-">> \o Strftime(tag.ts)
    ELSE tag.hash \o <<"-">> \o Strftime(tag.ts)

\* Every image named with the local prefix.
ImageTagLocal(b, dynamic_tag) ==
    Image(<<S_mcp_local, image_name(b)>>, dynamic_tag)

\* image_tag of BuildCommand.execute for a derived tag
ImageTag(b, dynamic_tag) ==
    IF b.push_to_ecr /\ ecr_repository(b) # <<>>
    THEN Image(ecr_repository(b) \o <<image_name(b)>>, dynamic_tag)
    ELSE Image(<<S_mcp_local, image_name(b)>>, dynamic_tag)

\* Step 3, first half: dynamic_tag = _generate_image_tag(...); image_tag = ...
GenerateImageTag ==
    /\ cpc = "tag"
    /\ \E a \in LookupAnswers :
          LET b == mcp_config.build
              dynamic_tag == GenerateImageTagOf(b.github_url, b.branch, a, now)
          IN /\ tagLog' = Append(tagLog,
                    [site |-> "build", sent |-> LookupSent(b.github_url),
                     tag |-> dynamic_tag])
             /\ builtImage' = ImageTag(b, dynamic_tag)
    /\ cpc' = "build"
    /\ UNCHANGED <<cfg, mcp_config, now, pushedImage, deployImageUri, cliMessage,
                   xvars, rvars, tvars>>

\* A failing build that keeps the temporary directory.
BuildDockerImageLeak ==
    /\ cpc = "build"
    /\ \/ /\ Last(builtImage.path) # <<>>
          /\ cpc' = "push"
          /\ UNCHANGED <<cliMessage, workspace>>
       \/ /\ Crash("docker build failed")
          /\ UNCHANGED workspace
    /\ UNCHANGED <<cfg, mcp_config, now, tagLog, builtImage, pushedImage,
                   deployImageUri, ecrLog, rvars, tvars>>

\* Step 3, second half: _build_docker_image(temp_dir, image_tag, ...); docker
\* refuses a tag whose image name is empty ("registry/:tag")
BuildDockerImage ==
    /\ cpc = "build"
    /\ \/ /\ Last(builtImage.path) # <<>>
          /\ cpc' = "push"
          /\ UNCHANGED <<cliMessage, workspace>>
       \/ CrashInWorkspace("docker build failed")
    /\ UNCHANGED <<cfg, mcp_config, now, tagLog, builtImage, pushedImage,
                   deployImageUri, ecrLog, rvars, tvars>>

\* repo_name of _push_to_ecr: everything after the registry host, or the whole
\* name when there is no "/"
RepoName(image) == IF Len(image.path) >= 2 THEN Tail(image.path) ELSE image.path

\* One registry or docker call of _push_to_ecr and how it ended.
EcrCall(op, image, ans) ==
    [ op |-> op, repo |-> RepoName(image), image |-> image, ans |-> ans,
      scanOnPush |-> (op = "create_repository"),
      encryptionType |-> IF op = "create_repository" THEN "AES256" ELSE None ]

\* How one _push_to_ecr can go: what describe_repositories answers and the
\* call the run of calls ends at. "stream_error" is a push whose log stream
\* carries an error entry: images.push(stream=True) does not raise then.
PushOutcomes ==
    { [describe |-> "ClientError", ends |-> "describe_repositories"],
      [describe |-> "RepositoryNotFoundException", ends |-> "create_repository"] }
    \cup [ describe : {"exists", "RepositoryNotFoundException"},
           ends : {"get_authorization_token", "login", "push", "stream_error", "ok"} ]

\* The repository created whatever describe_repositories answered.
EcrCallsAlwaysCreate(image, o) ==
    <<EcrCall("describe_repositories", image, o.describe)>>
    \o (IF o.describe # "ClientError"
        THEN <<EcrCall("create_repository", image,
                       IF o.ends = "create_repository" THEN "error" ELSE "ok")>>
        ELSE <<>>)
    \o (IF o.ends \in {"describe_repositories", "create_repository"} THEN <<>>
        ELSE <<EcrCall("get_authorization_token", image,
                       IF o.ends = "get_authorization_token" THEN "error" ELSE "ok")>>)
    \o (IF o.ends \in {"login", "push", "stream_error", "ok"}
        THEN <<EcrCall("login", image, IF o.ends = "login" THEN "error" ELSE "ok")>>
        ELSE <<>>)
    \o (IF o.ends \in {"push", "stream_error", "ok"}
        THEN <<EcrCall("push", image,
                       IF o.ends = "push" THEN "error" ELSE o.ends)>>
        ELSE <<>>)

\* The calls _push_to_ecr makes, in order, for an outcome.
EcrCalls(image, o) ==
    <<EcrCall("describe_repositories", image, o.describe)>>
    \o (IF o.describe = "RepositoryNotFoundException"
        THEN <<EcrCall("create_repository", image,
                       IF o.ends = "create_repository" THEN "error" ELSE "ok")>>
        ELSE <<>>)
    \o (IF o.ends \in {"describe_repositories", "create_repository"} THEN <<>>
        ELSE <<EcrCall("get_authorization_token", image,
                       IF o.ends = "get_authorization_token" THEN "error" ELSE "ok")>>)
    \o (IF o.ends \in {"login", "push", "stream_error", "ok"}
        THEN <<EcrCall("login", image, IF o.ends = "login" THEN "error" ELSE "ok")>>
        ELSE <<>>)
    \o (IF o.ends \in {"push", "stream_error", "ok"}
        THEN <<EcrCall("push", image,
                       IF o.ends = "push" THEN "error" ELSE o.ends)>>
        ELSE <<>>)

\* Step 4: if push_to_ecr: _push_to_ecr(image_tag, aws_region); the with
\* block of execute ends after it
PushToEcr ==
    /\ cpc = "push"
    /\ IF mcp_config.build.push_to_ecr
       THEN \E o \in PushOutcomes :
               /\ ecrLog' = SelectSeq(EcrCalls(builtImage, o),
                                      LAMBDA c : c.op = "push")
               /\ IF o.ends \in {"ok", "stream_error"}
                  THEN /\ pushedImage' = builtImage
                       /\ cpc' = "deploy"
                       /\ UNCHANGED cliMessage
                  ELSE /\ Crash("push failed")
                       /\ UNCHANGED pushedImage
       ELSE /\ cpc' = "deploy"
            /\ UNCHANGED <<pushedImage, cliMessage, ecrLog>>
    /\ workspace' = "released"
    /\ UNCHANGED <<cfg, mcp_config, now, tagLog, builtImage, deployImageUri,
                   rvars, tvars>>

\* if deploy_config and deploy_config.enabled: deploy_cmd.execute(image_uri=
\* build_config.image_uri, ...), which enters _deploy_cloudformation_stack
StartDeploy ==
    /\ cpc = "deploy"
    /\ DeployEnabled(mcp_config)
    /\ deployImageUri' = image_uri(mcp_config.build)
    /\ cpc' = "deploying"
    /\ BeginCall
    /\ UNCHANGED <<cfg, mcp_config, now, tagLog, builtImage, pushedImage,
                   cliMessage, xvars, tvars>>

\* else: "Build completed successfully! (Deployment skipped ...)"
SkipDeploy ==
    /\ cpc = "deploy"
    /\ ~DeployEnabled(mcp_config)
    /\ cpc' = "done"
    /\ UNCHANGED <<cfg, mcp_config, now, tagLog, builtImage, pushedImage,
                   deployImageUri, cliMessage, xvars, rvars, tvars>>

\* deploy_cmd.execute returned the ALB URL or raised
FinishDeploy ==
    /\ cpc = "deploying"
    /\ pc \in {"done", "failed"}
    /\ IF pc = "done"
       THEN cpc' = "done" /\ UNCHANGED cliMessage
       ELSE Crash(error)
    /\ UNCHANGED <<cfg, mcp_config, now, tagLog, builtImage, pushedImage,
                   deployImageUri, xvars, rvars, tvars>>

InitCli ==
    /\ cpc = "load"
    /\ cfg \in Configs
    /\ mcp_config = None
    /\ now = 0
    /\ tagLog = <<>>
    /\ builtImage = NoImage
    /\ pushedImage = NoImage
    /\ deployImageUri = NoImage
    /\ cliMessage = None
    /\ workspace = "none"
    /\ ecrLog = <<>>

CliInit == InitBackend /\ InitCall /\ InitCli /\ IdleResolve

CliNext ==
    \/ Tick
    \/ LoadConfig
    \/ Validate
    \/ EnterExecute
    \/ FetchMcpServer
    \/ GenerateDockerfile
    \/ GenerateImageTag
    \/ BuildDockerImage
    \/ PushToEcr
    \/ StartDeploy
    \/ SkipDeploy
    \/ DescribeInitial
    \/ UpdateStack
    \/ CreateStack
    \/ StartWait
    \/ Poll
    \/ FinalDescribe
    \/ FinishDeploy

SpecCli == CliInit /\ [][CliNext]_vars

----------------------------------------------------------------------------
(* build.py: the command extractors *)

ReadmeFiles == <<"README.md", "README.txt", "README.rst", "readme.md", "readme.txt">>

\* A server descriptor of an mcpServers mapping.
Descriptor(cmd, args) ==
    [has_command |-> TRUE, command |-> cmd, has_args |-> TRUE, args |-> args]
DescriptorNoArgs(cmd) ==
    [has_command |-> TRUE, command |-> cmd, has_args |-> FALSE, args |-> <<>>]
DescriptorNoCommand ==
    [has_command |-> FALSE, command |-> "", has_args |-> FALSE, args |-> <<>>]

\* A fenced block of a README: "servers" is a JSON object with an mcpServers
\* mapping, "bad" mentions mcpServers but is not valid JSON, "other" is an
\* object that does not mention mcpServers, "notmapping" is valid JSON whose
\* mcpServers value is a list or null.
ServersBlock(servers) == [kind |-> "servers", servers |-> servers]
BadBlock == [kind |-> "bad", servers |-> <<>>]
OtherBlock == [kind |-> "other", servers |-> <<>>]
NotMappingBlock == [kind |-> "notmapping", servers |-> <<>>]

\* Stands for the AttributeError of servers.values() leaving the README
\* strategy: only JSONDecodeError, IOError and UnicodeDecodeError are caught.
ReadmeRaised == <<"<AttributeError>">>

Readme(blocks) == [present |-> TRUE, readable |-> TRUE, blocks |-> blocks]
NoReadme == [present |-> FALSE, readable |-> TRUE, blocks |-> <<>>]
UnreadableReadme == [present |-> TRUE, readable |-> FALSE, blocks |-> <<>>]

RECURSIVE PatternMatches(_)
\* re.findall of ```(json)? { ... "mcpServers" ... } ```: a match opens at the
\* first fenced "{" and runs lazily to the first "mcpServers" and the closing
\* fence after it, so an object without mcpServers is merged with what follows
\* up to the next block that mentions it (and the merged text is not JSON).
PatternMatches(blocks) ==
    IF blocks = <<>> THEN <<>>
    ELSE IF blocks[1].kind = "other"
    THEN LET later == {j \in 2..Len(blocks) : blocks[j].kind # "other"}
         IN IF later = {} THEN <<>>
            ELSE LET j == CHOOSE k \in later : \A m \in later : k <= m
                 IN <<BadBlock>> \o PatternMatches(SubSeq(blocks, j + 1, Len(blocks)))
    ELSE <<blocks[1]>> \o PatternMatches(Tail(blocks))

\* [command] + args of a descriptor
DescriptorCommand(d) ==
    <<d.command>> \o (IF d.has_args /\ d.args # <<>> THEN d.args ELSE <<>>)

RECURSIVE FirstNonDocker(_)
\* for server_config in servers.values(): the first command that is not docker
FirstNonDocker(servers) ==
    IF servers = <<>> THEN <<>>
    ELSE IF servers[1].has_command /\ DescriptorCommand(servers[1])[1] # "docker"
    THEN DescriptorCommand(servers[1])
    ELSE FirstNonDocker(Tail(servers))

RECURSIVE FirstInBlocks(_)
\* for json_str in matches: json.loads, JSONDecodeError -> continue
FirstInBlocks(matches) ==
    IF matches = <<>> THEN <<>>
    ELSE IF matches[1].kind = "notmapping" THEN ReadmeRaised
    ELSE IF matches[1].kind = "servers" /\ FirstNonDocker(matches[1].servers) # <<>>
    THEN FirstNonDocker(matches[1].servers)
    ELSE FirstInBlocks(Tail(matches))

RECURSIVE FirstInFiles(_, _)
\* for readme_file in readme_files (from position i on)
FirstInFiles(readmes, i) ==
    IF i > Len(ReadmeFiles) THEN <<>>
    ELSE LET f == readmes[ReadmeFiles[i]]
             found == IF f.present /\ f.readable
                      THEN FirstInBlocks(PatternMatches(f.blocks))
                      ELSE <<>>
         IN IF found # <<>> THEN found ELSE FirstInFiles(readmes, i + 1)

\* _extract_start_command_from_readme (<<>> stands for None)
ExtractStartCommandFromReadme(t) == FirstInFiles(t.readmes, 1)

\* The last key of a table taken instead of the first.
PyprojectLastScript(p) ==
    IF ~p.parses THEN <<>>
    ELSE IF p.has_project /\ p.has_scripts
    THEN IF p.scripts = <<>> THEN <<>> ELSE <<p.scripts[Len(p.scripts)]>>
    ELSE IF p.has_project /\ p.has_entry_points /\ p.console_scripts # <<>>
    THEN <<p.console_scripts[Len(p.console_scripts)]>>
    ELSE <<>>

\* _extract_start_command_from_pyproject
ExtractStartCommandFromPyproject(p) ==
    IF ~p.parses THEN <<>>
    ELSE IF p.has_project /\ p.has_scripts
    THEN IF p.scripts = <<>> THEN <<>> ELSE <<p.scripts[1]>>
    ELSE IF p.has_project /\ p.has_entry_points /\ p.console_scripts # <<>>
    THEN <<p.console_scripts[1]>>
    ELSE <<>>

\* _extract_start_command_from_setup_py
ExtractStartCommandFromSetupPy(sp) ==
    IF sp.readable /\ sp.console_scripts # <<>> THEN <<sp.console_scripts[1]>> ELSE <<>>

CommonFiles == <<"server.py", "main.py", "app.py", "__main__.py">>

\* os.path.basename: what follows the last "/" of the path, "" when the path
\* ends with "/" (a path is the sequence of its "/"-separated segments)
Basename(path) == path[Len(path)]

CommonCommand(t, f) ==
    IF f = "__main__.py" THEN <<"python", "-m", Basename(t.path)>> ELSE <<"python", f>>

\* Top-level names ending in ".py" whose lower-cased name has "mcp" or "server".
KeywordPyFiles == {"server.py", "mcp_tool.py", "My_Server.py"}

\* _detect_fallback_start_command: the commands it can return (os.listdir
\* yields the entries in arbitrary order)
DetectFallbackStartCommand(t) ==
    LET present == {i \in DOMAIN CommonFiles : CommonFiles[i] \in t.files}
    IN IF present # {}
       THEN {CommonCommand(t, CommonFiles[CHOOSE i \in present : \A j \in present : i <= j])}
       ELSE IF t.files \cap KeywordPyFiles # {}
       THEN {<<"python", f>> : f \in t.files \cap KeywordPyFiles}
       ELSE {<<"python", "server.py">>}

BaseCommand == <<"mcp-proxy", "--debug", "--port", "8000", "--shell">>

\* The command appended as it is, without the separator.
EntrypointNoSeparator(start_command) ==
    IF start_command = <<>> THEN BaseCommand \o <<"python", "-m", "server">>
    ELSE BaseCommand \o start_command

\* _generate_entrypoint_command
GenerateEntrypointCommand(start_command) ==
    IF start_command = <<>> THEN BaseCommand \o <<"python", "-m", "server">>
    ELSE IF Len(start_command) = 1 THEN BaseCommand \o start_command
    ELSE BaseCommand \o <<start_command[1]>> \o <<"--">> \o Tail(start_command)

----------------------------------------------------------------------------
(* build.py: _detect_package_info *)

\* The README strategy ahead of the override.
ReadmeBeforeOverride(t, override) ==
    IF ExtractStartCommandFromReadme(t) # <<>>
    THEN ExtractStartCommandFromReadme(t) ELSE override

\* Priority 1 and 2: the override, else the README strategy.
AfterReadme(t, override) ==
    IF override # <<>> THEN override ELSE ExtractStartCommandFromReadme(t)

\* requirements.txt looked for ahead of pyproject.toml.
RequirementsFirst(t) ==
    IF t.requirements THEN "requirements.txt"
    ELSE IF t.pyproject.present THEN "pyproject.toml"
    ELSE IF t.setup_py.present THEN "setup.py"
    ELSE "none"

\* The dependency descriptor taken: pyproject.toml, else requirements.txt, else setup.py.
DescriptorTaken(t) ==
    IF t.pyproject.present THEN "pyproject.toml"
    ELSE IF t.requirements THEN "requirements.txt"
    ELSE IF t.setup_py.present THEN "setup.py"
    ELSE "none"

\* The poetry marker looked for ahead of the uv marker.
ManagerPoetryFirst(t) ==
    IF DescriptorTaken(t) # "pyproject.toml" THEN "pip"
    ELSE IF t.pyproject.poetry THEN "poetry"
    ELSE IF t.pyproject.uv THEN "uv"
    ELSE "pip"

\* package_info["manager"]: "pip" unless pyproject.toml carries a marker
Manager(t) ==
    IF DescriptorTaken(t) # "pyproject.toml" THEN "pip"
    ELSE IF t.pyproject.uv THEN "uv"
    ELSE IF t.pyproject.poetry THEN "poetry"
    ELSE "pip"

\* The manifest strategy replacing what the override or the README gave.
ManifestOverReadme(t, override) ==
    LET m == IF DescriptorTaken(t) = "pyproject.toml"
             THEN ExtractStartCommandFromPyproject(t.pyproject)
             ELSE IF DescriptorTaken(t) = "setup.py"
             THEN ExtractStartCommandFromSetupPy(t.setup_py)
             ELSE <<>>
    IN IF m # <<>> THEN m ELSE AfterReadme(t, override)

\* start_command after the dependency-descriptor branch.
AfterManifest(t, override) ==
    LET sc == AfterReadme(t, override)
    IN IF sc # <<>> THEN sc
       ELSE IF DescriptorTaken(t) = "pyproject.toml"
       THEN ExtractStartCommandFromPyproject(t.pyproject)
       ELSE IF DescriptorTaken(t) = "setup.py"
       THEN ExtractStartCommandFromSetupPy(t.setup_py)
       ELSE <<>>

\* The extractors _detect_package_info calls, in order.
Consulted(t, override) ==
    (IF override # <<>> THEN <<>> ELSE <<"readme">>)
    \o (IF AfterReadme(t, override) = <<>> /\ DescriptorTaken(t) = "pyproject.toml"
        THEN <<"pyproject">> ELSE <<>>)
    \o (IF AfterReadme(t, override) = <<>> /\ DescriptorTaken(t) = "setup.py"
        THEN <<"setup_py">> ELSE <<>>)
    \o (IF AfterManifest(t, override) = <<>> THEN <<"fallback">> ELSE <<>>)

\* The entrypoint synthesised before the fallback strategy has run.
PackageInfoEarlyEntrypoint(t, override, fb) ==
    LET sc == IF AfterManifest(t, override) # <<>> THEN AfterManifest(t, override) ELSE fb
    IN [ manager |-> Manager(t),
         requirements_file |->
            IF DescriptorTaken(t) = "requirements.txt" THEN "requirements.txt" ELSE None,
         project_file |->
            IF DescriptorTaken(t) \in {"pyproject.toml", "setup.py"}
            THEN DescriptorTaken(t) ELSE None,
         start_command |-> sc,
         entrypoint_command |-> GenerateEntrypointCommand(AfterManifest(t, override)) ]

\* The plan returned when the fallback strategy, if called, answers fb.
PackageInfo(t, override, fb) ==
    LET sc == IF AfterManifest(t, override) # <<>> THEN AfterManifest(t, override) ELSE fb
    IN [ manager |-> Manager(t),
         requirements_file |->
            IF DescriptorTaken(t) = "requirements.txt" THEN "requirements.txt" ELSE None,
         project_file |->
            IF DescriptorTaken(t) \in {"pyproject.toml", "setup.py"}
            THEN DescriptorTaken(t) ELSE None,
         start_command |-> sc,
         entrypoint_command |-> GenerateEntrypointCommand(sc) ]

\* with open(".../pyproject.toml", "r") as f: content = f.read() stands outside
\* any try: content that does not decode raises out of resolution.
PyprojectReadFails(t) == t.pyproject.present /\ ~t.pyproject.readable

\* package_info = self._detect_package_info(mcp_server_path, command_override, ...)
DetectPackageInfo ==
    /\ rpc = "start"
    /\ IF command_override = <<>> /\ ExtractStartCommandFromReadme(tree) = ReadmeRaised
       THEN /\ rpc' = "raised"
            /\ resolveError' = "AttributeError"
            /\ consulted' = <<"readme">>
            /\ UNCHANGED package_info
       ELSE IF PyprojectReadFails(tree)
       THEN /\ rpc' = "raised"
            /\ resolveError' = "UnicodeDecodeError"
            /\ consulted' = IF command_override # <<>> THEN <<>> ELSE <<"readme">>
            /\ UNCHANGED package_info
       ELSE /\ \E fb \in DetectFallbackStartCommand(tree) :
                  package_info' = PackageInfo(tree, command_override, fb)
            /\ consulted' = Consulted(tree, command_override)
            /\ rpc' = "resolved"
            /\ resolveError' = None
    /\ UNCHANGED <<tree, command_override, uvars, rvars, cvars>>

----------------------------------------------------------------------------
(* The source trees and overrides resolution is applied to *)

DockerServer == Descriptor("docker", <<"run", "image">>)
UvxServer == Descriptor("uvx", <<"my-server">>)
BareServer == DescriptorNoArgs("my-mcp")

ReadmeChoices ==
    { NoReadme,
      UnreadableReadme,
      Readme(<<>>),
      Readme(<<ServersBlock(<<DockerServer>>)>>),
      Readme(<<ServersBlock(<<UvxServer>>)>>),
      Readme(<<ServersBlock(<<DockerServer, UvxServer>>)>>),
      Readme(<<ServersBlock(<<DockerServer>>), ServersBlock(<<BareServer>>)>>),
      Readme(<<BadBlock, ServersBlock(<<UvxServer>>)>>),
      Readme(<<OtherBlock, ServersBlock(<<UvxServer>>)>>),
      Readme(<<NotMappingBlock, ServersBlock(<<UvxServer>>)>>),
      Readme(<<ServersBlock(<<DescriptorNoCommand>>)>>) }

SecondReadmeChoices ==
    { NoReadme,
      Readme(<<ServersBlock(<<DockerServer>>)>>),
      Readme(<<ServersBlock(<<BareServer>>)>>) }

Readmes ==
    { [f \in {ReadmeFiles[i] : i \in DOMAIN ReadmeFiles} |->
          IF f = "README.md" THEN a ELSE IF f = "README.rst" THEN b ELSE NoReadme]
      : a \in ReadmeChoices, b \in SecondReadmeChoices }

NoPyproject ==
    [ present |-> FALSE, readable |-> TRUE, uv |-> FALSE, poetry |-> FALSE,
      parses |-> TRUE, has_project |-> FALSE, has_scripts |-> FALSE, scripts |-> <<>>,
      has_entry_points |-> FALSE, console_scripts |-> <<>> ]

PyprojectChoices ==
    { NoPyproject,
      [NoPyproject EXCEPT !.present = TRUE],
      [NoPyproject EXCEPT !.present = TRUE, !.uv = TRUE, !.has_project = TRUE,
                          !.has_scripts = TRUE, !.scripts = <<"foo", "bar">>],
      [NoPyproject EXCEPT !.present = TRUE, !.poetry = TRUE, !.has_project = TRUE,
                          !.has_entry_points = TRUE, !.console_scripts = <<"baz">>],
      [NoPyproject EXCEPT !.present = TRUE, !.uv = TRUE, !.poetry = TRUE,
                          !.has_project = TRUE, !.has_scripts = TRUE],
      [NoPyproject EXCEPT !.present = TRUE, !.poetry = TRUE, !.parses = FALSE],
      [NoPyproject EXCEPT !.present = TRUE, !.readable = FALSE] }

NoSetupPy == [present |-> FALSE, readable |-> TRUE, console_scripts |-> <<>>]

SetupPyChoices ==
    { NoSetupPy,
      [NoSetupPy EXCEPT !.present = TRUE],
      [NoSetupPy EXCEPT !.present = TRUE, !.console_scripts = <<"legacy-cmd">>] }

FileSets ==
    { {},
      {"util.py"},
      {"server.py", "main.py"},
      {"main.py", "app.py"},
      {"app.py", "__main__.py", "mcp_tool.py"},
      {"__main__.py"},
      {"mcp_tool.py", "My_Server.py", "util.py"} }

\* mcp_server_path: os.path.join(repo_dir, subfolder) for the subfolders
\* "srv" and "srv/"
TreePaths == { <<"tmp", "repo-main", "srv">>, <<"tmp", "repo-main", "srv", "">> }

Trees ==
    [ path : TreePaths, readmes : Readmes, pyproject : PyprojectChoices,
      requirements : BOOLEAN, setup_py : SetupPyChoices, files : FileSets ]

\* command_override: <<>> stands for None (and for an empty list).
Overrides == { <<>>, <<"node">>, <<"python", "-m", "pkg", "--debug">> }

InitResolve ==
    /\ rpc = "start"
    /\ tree \in Trees
    /\ command_override \in Overrides
    /\ package_info = None
    /\ consulted = <<>>
    /\ resolveError = None
    /\ IdleUnit

IdleReconcile ==
    /\ stack = "Absent"
    /\ outputs = <<>>
    /\ InitCall

ResolveInit == IdleReconcile /\ IdleCli /\ InitResolve

ResolveNext == DetectPackageInfo

SpecResolve == ResolveInit /\ [][ResolveNext]_vars

----------------------------------------------------------------------------
(* build.py: one direct call of a helper, on arguments from a bounded set *)

MaxCommandLen == 3

Tokens == {"x", "a", "b", "--"}

\* start_command arguments: None (<<>>) and every list of up to MaxCommandLen tokens
Commands == UNION { [1..n -> Tokens] : n \in 0..MaxCommandLen }

\* github_url arguments, as the path after https://github.com/
TagUrls == GithubUrls \cup { <<S_owner, S_repo, S_dev>> }

ServiceNames == {"svc", "my-svc"}

S_alb == <<"h", "t", "t", "p", ":", "/", "/", "a", "l", "b">>

\* alb_url arguments: without, with one and with two trailing slashes
AlbUrls == { S_alb, S_alb \o <<"/">>, S_alb \o <<"/", "/">> }

\* The mapping json.dumps writes out, without the base_url.rstrip("/").
SseConfigKeepsSlash(service_name, alb_url) ==
    [ mcpServers |->
        [ key |-> service_name,
          value |-> [type |-> "sse", url |-> <<alb_url \o <<"/", "s", "s", "e">> >>] ] ]

\* MCPConfigGenerator.generate_sse_example_configs (the mapping json.dumps
\* writes out; mcpServers has the one key service_name)
GenerateSseExampleConfigs(service_name, alb_url) ==
    [ mcpServers |->
        [ key |-> service_name,
          value |-> [type |-> "sse",
                     url |-> <<RStrip(alb_url, {"/"}) \o <<"/", "s", "s", "e">> >>] ] ]

\* MCPConfigGenerator.generate_streamable_http_example_configs
GenerateStreamableHttpExampleConfigs(service_name, alb_url) ==
    [ mcpServers |->
        [ key |-> service_name,
          value |-> [transportType |-> "http",
                     url |-> <<RStrip(alb_url, {"/"}) \o <<"/", "m", "c", "p">> >>] ] ]

\* Image names _push_to_ecr is called with: registry/team/name,
\* registry/name, and a name without "/"
PushPaths == { <<S_registry, S_team, S_foo>>, <<S_registry, S_foo>>, <<S_foo>> }

Units ==
    { [fn |-> "_generate_entrypoint_command", start_command |-> c] : c \in Commands }
    \cup { [fn |-> "_generate_image_tag", github_url |-> u, branch |-> b,
            answer |-> a, clock |-> t]
            : u \in TagUrls, b \in {<<>>, S_dev}, a \in LookupAnswers, t \in 0..MaxClock }
    \cup { [fn |-> "_extract_start_command_from_readme", readmes |-> r] : r \in Readmes }
    \cup { [fn |-> "_detect_fallback_start_command", path |-> q, files |-> f]
            : q \in TreePaths, f \in FileSets }
    \cup { [fn |-> g, service_name |-> n, alb_url |-> u]
            : g \in {"generate_sse_example_configs",
                     "generate_streamable_http_example_configs"},
              n \in ServiceNames, u \in AlbUrls }
    \cup { [fn |-> "_push_to_ecr", image_tag |-> Image(q, LiteralTag(S_v1)),
            outcome |-> o]
            : q \in PushPaths, o \in PushOutcomes }

\* self._generate_entrypoint_command(start_command)
CallGenerateEntrypointCommand ==
    /\ upc = "call"
    /\ unit.fn = "_generate_entrypoint_command"
    /\ ret' = GenerateEntrypointCommand(unit.start_command)
    /\ upc' = "returned"
    /\ UNCHANGED <<unit, pvars, rvars, cvars>>

\* self._generate_image_tag(github_url, branch)
CallGenerateImageTag ==
    /\ upc = "call"
    /\ unit.fn = "_generate_image_tag"
    /\ ret' = TagText(GenerateImageTagOf(unit.github_url, unit.branch,
                                         unit.answer, unit.clock))
    /\ upc' = "returned"
    /\ UNCHANGED <<unit, pvars, rvars, cvars>>

\* self._extract_start_command_from_readme(mcp_server_path)
CallExtractStartCommandFromReadme ==
    /\ upc = "call"
    /\ unit.fn = "_extract_start_command_from_readme"
    /\ IF ExtractStartCommandFromReadme([readmes |-> unit.readmes]) = ReadmeRaised
       THEN /\ upc' = "raised"
            /\ ret' = "AttributeError"
       ELSE /\ upc' = "returned"
            /\ ret' = ExtractStartCommandFromReadme([readmes |-> unit.readmes])
    /\ UNCHANGED <<unit, pvars, rvars, cvars>>

\* self._detect_fallback_start_command(mcp_server_path)
CallDetectFallbackStartCommand ==
    /\ upc = "call"
    /\ unit.fn = "_detect_fallback_start_command"
    /\ ret' \in DetectFallbackStartCommand([path |-> unit.path, files |-> unit.files])
    /\ upc' = "returned"
    /\ UNCHANGED <<unit, pvars, rvars, cvars>>

\* MCPConfigGenerator.generate_sse_example_configs(service_name, alb_url)
CallGenerateSseExampleConfigs ==
    /\ upc = "call"
    /\ unit.fn = "generate_sse_example_configs"
    /\ ret' = GenerateSseExampleConfigs(unit.service_name, unit.alb_url)
    /\ upc' = "returned"
    /\ UNCHANGED <<unit, pvars, rvars, cvars>>

\* MCPConfigGenerator.generate_streamable_http_example_configs(service_name, alb_url)
CallGenerateStreamableHttpExampleConfigs ==
    /\ upc = "call"
    /\ unit.fn = "generate_streamable_http_example_configs"
    /\ ret' = GenerateStreamableHttpExampleConfigs(unit.service_name, unit.alb_url)
    /\ upc' = "returned"
    /\ UNCHANGED <<unit, pvars, rvars, cvars>>

\* self._push_to_ecr(image_tag, aws_region); ret is the run of calls it made
CallPushToEcr ==
    /\ upc = "call"
    /\ unit.fn = "_push_to_ecr"
    /\ ret' = EcrCalls(unit.image_tag, unit.outcome)
    /\ upc' = IF unit.outcome.ends \in {"ok", "stream_error"}
              THEN "returned" ELSE "raised"
    /\ UNCHANGED <<unit, pvars, rvars, cvars>>

InitUnit ==
    /\ upc = "call"
    /\ unit \in Units
    /\ ret = None

UnitInit ==
    /\ IdleReconcile /\ IdleCli
    /\ rpc = "off" /\ tree = None /\ command_override = None
    /\ package_info = None /\ consulted = <<>> /\ resolveError = None
    /\ InitUnit

UnitNext ==
    \/ CallGenerateEntrypointCommand
    \/ CallGenerateImageTag
    \/ CallExtractStartCommandFromReadme
    \/ CallDetectFallbackStartCommand
    \/ CallGenerateSseExampleConfigs
    \/ CallGenerateStreamableHttpExampleConfigs
    \/ CallPushToEcr

SpecUnit == UnitInit /\ [][UnitNext]_vars

----------------------------------------------------------------------------
(* Claims about the CLI run, checked under SpecCli *)

\* C7 (as claimed): in a run with deployment enabled, the image URI handed to
\* DeployCommand.execute is, tag included, the image coordinate the build step
\* pushed to the registry in that run.
C7_DeployedImageIsPushedImage ==
    cpc = "deploying" => deployImageUri = pushedImage

\* The build of this run got through its last step.
BuildFinished == cpc \in {"deploy", "deploying", "done"}

\* C8 (as claimed): from configuration loading through the push, tag
\* derivation is performed exactly once, and the image coordinate carries the
\* hash and timestamp of that one derivation.
C8_TagDerivedOnce ==
    BuildFinished =>
       /\ Len(tagLog) = 1
       /\ builtImage.tag = tagLog[1].tag

----------------------------------------------------------------------------
(* Claims about resolution, checked under SpecResolve *)

\* The commands of the descriptors of a README file.
CommandsOf(r) ==
    { r.blocks[i].servers[j].command :
        <<i, j>> \in { <<i, j>> \in (DOMAIN r.blocks) \X (1..2) :
                          /\ r.blocks[i].kind = "servers"
                          /\ j \in DOMAIN r.blocks[i].servers
                          /\ r.blocks[i].servers[j].has_command } }

AllReadmeCommands(t) ==
    UNION { CommandsOf(t.readmes[ReadmeFiles[k]]) : k \in DOMAIN ReadmeFiles }

\* The README files describe at least one command and every one is docker.
DockerOnlyReadme(t) == AllReadmeCommands(t) = {"docker"}

\* No README, no dependency descriptor, no file at all.
EmptyTree(t) ==
    /\ \A k \in DOMAIN ReadmeFiles : ~t.readmes[ReadmeFiles[k]].present
    /\ DescriptorTaken(t) = "none"
    /\ ~t.pyproject.present /\ ~t.requirements /\ ~t.setup_py.present
    /\ t.files = {}

DockerOnlyError == "README contains only Docker commands"
GenericError == "Unable to detect start command"

\* C9 (as claimed): for a tree whose README command descriptors are all Docker
\* commands and no override, resolution fails with the Docker-only variant of
\* the inference-exhausted error and returns no build plan.
C9_DockerOnlyFails ==
    (rpc # "start" /\ command_override = <<>> /\ DockerOnlyReadme(tree))
    => (rpc = "raised" /\ resolveError = DockerOnlyError)

\* C10 (as claimed): for an empty tree and no override, resolution fails with
\* the generic inference-exhausted error and returns no build plan.
C10_EmptyTreeFails ==
    (rpc # "start" /\ command_override = <<>> /\ EmptyTree(tree))
    => (rpc = "raised" /\ resolveError = GenericError)

\* x is an element of the sequence q.
InSeq(q, x) == \E i \in DOMAIN q : q[i] = x

\* C11: when a non-empty override is supplied, the start command of the plan
\* resolution returns is exactly the override, whatever the tree holds, and no
\* extractor (README, pyproject, setup.py, fallback) has been consulted.
C11_OverrideWins ==
    (rpc # "start" /\ command_override # <<>>) =>
        /\ consulted = <<>>
        /\ rpc = "resolved" => package_info.start_command = command_override

\* An override given for a tree whose README, pyproject.toml and files would
\* each have yielded a command.
C11_Witness ==
    /\ rpc = "resolved"
    /\ command_override # <<>>
    /\ ExtractStartCommandFromReadme(tree) # <<>>
    /\ ExtractStartCommandFromPyproject(tree.pyproject) # <<>>
    /\ "server.py" \in tree.files
    /\ package_info.start_command = command_override

\* What the manifest strategy of the tree's dependency descriptor yields.
ManifestCommand(t) ==
    IF t.pyproject.present THEN ExtractStartCommandFromPyproject(t.pyproject)
    ELSE IF ~t.requirements /\ t.setup_py.present
    THEN ExtractStartCommandFromSetupPy(t.setup_py)
    ELSE <<>>

\* C12: without an override the start command is what the first yielding
\* strategy gave, in the order README, manifest strategy of the detected
\* descriptor, fallback by filename; a strategy is consulted only while every
\* earlier one has yielded nothing.
C12_FirstStrategyWins ==
    (rpc = "resolved" /\ command_override = <<>>) =>
        LET r == ExtractStartCommandFromReadme(tree)
            m == ManifestCommand(tree)
            sc == package_info.start_command
        IN /\ consulted # <<>> /\ consulted[1] = "readme"
           /\ r # <<>> => (sc = r /\ consulted = <<"readme">>)
           /\ (r = <<>> /\ m # <<>>) => (sc = m /\ ~InSeq(consulted, "fallback"))
           /\ (r = <<>> /\ m = <<>>) =>
                 /\ sc \in DetectFallbackStartCommand(tree)
                 /\ consulted[Len(consulted)] = "fallback"

\* README and pyproject.toml both name a command: the README one is kept.
C12_Witness ==
    /\ rpc = "resolved"
    /\ command_override = <<>>
    /\ ExtractStartCommandFromReadme(tree) # <<>>
    /\ ManifestCommand(tree) # <<>>
    /\ ManifestCommand(tree) # ExtractStartCommandFromReadme(tree)
    /\ package_info.start_command = ExtractStartCommandFromReadme(tree)

\* C13 (as claimed): for a tree where pyproject.toml or setup.py was detected
\* and its manifest strategy ran, the fallback-by-filename strategy is not
\* used to produce the start command.
C13_NoFallbackAfterManifest ==
    (rpc = "resolved"
     /\ (InSeq(consulted, "pyproject") \/ InSeq(consulted, "setup_py")))
    => ~InSeq(consulted, "fallback")

\* C14 (as claimed): for a tree with a pyproject.toml, the uv marker gives
\* manager uv, the poetry marker gives manager poetry, neither gives pip.
C14_ManagerByMarker ==
    (rpc = "resolved" /\ tree.pyproject.present) =>
        /\ tree.pyproject.uv => package_info.manager = "uv"
        /\ tree.pyproject.poetry => package_info.manager = "poetry"
        /\ (~tree.pyproject.uv /\ ~tree.pyproject.poetry) => package_info.manager = "pip"

\* C14 (amended): for a tree with a pyproject.toml, the uv marker gives manager
\* uv; the poetry marker without the uv marker gives poetry; neither gives pip.
C14_ManagerByMarkerUvFirst ==
    (rpc = "resolved" /\ tree.pyproject.present) =>
        /\ tree.pyproject.uv => package_info.manager = "uv"
        /\ (tree.pyproject.poetry /\ ~tree.pyproject.uv) => package_info.manager = "poetry"
        /\ (~tree.pyproject.uv /\ ~tree.pyproject.poetry) => package_info.manager = "pip"

\* A pyproject.toml carrying both markers, resolved to uv.
C14_Witness ==
    /\ rpc = "resolved"
    /\ tree.pyproject.present
    /\ tree.pyproject.uv /\ tree.pyproject.poetry
    /\ package_info.manager = "uv"

\* C15: the dependency descriptor is pyproject.toml if present, else
\* requirements.txt, else setup.py; a plan never sets both requirements_file
\* and project_file, has manager uv or poetry only with project_file
\* pyproject.toml, and the setup.py extractor is not consulted when
\* pyproject.toml or requirements.txt exists.
C15_OneDescriptor ==
    rpc = "resolved" =>
        LET p == package_info
            hasPy == tree.pyproject.present
            hasReq == tree.requirements
            hasSetup == tree.setup_py.present
        IN /\ ~(p.requirements_file # None /\ p.project_file # None)
           /\ p.manager \in {"uv", "poetry"} => p.project_file = "pyproject.toml"
           /\ hasPy => /\ p.project_file = "pyproject.toml"
                       /\ p.requirements_file = None
                       /\ ~InSeq(consulted, "setup_py")
           /\ (~hasPy /\ hasReq) => /\ p.requirements_file = "requirements.txt"
                                    /\ p.project_file = None
                                    /\ ~InSeq(consulted, "setup_py")
           /\ (~hasPy /\ ~hasReq /\ hasSetup) => /\ p.project_file = "setup.py"
                                                 /\ p.requirements_file = None
           /\ (~hasPy /\ ~hasReq /\ ~hasSetup) => /\ p.project_file = None
                                                  /\ p.requirements_file = None
                                                  /\ p.manager = "pip"
           /\ ~hasPy => ~InSeq(consulted, "pyproject")

\* All three descriptors present, no command from README or pyproject.toml,
\* and a setup.py that names one: pyproject.toml is taken and setup.py is
\* left unread.
C15_Witness ==
    /\ rpc = "resolved"
    /\ command_override = <<>>
    /\ tree.pyproject.present /\ tree.requirements /\ tree.setup_py.present
    /\ ExtractStartCommandFromSetupPy(tree.setup_py) # <<>>
    /\ InSeq(consulted, "pyproject")
    /\ InSeq(consulted, "fallback")
    /\ package_info.project_file = "pyproject.toml"

\* The fixed proxy-runner invocation of the entrypoint wire contract.
ProxyPrefix == <<"mcp-proxy", "--debug", "--port", "8000", "--shell">>

\* C17: a returned plan's entrypoint_command is the synthesis of its own
\* start_command, of shape prefix+[program] or prefix+[program,"--",arg...]:
\* no token follows the program without the "--" separator in between.
C17_EntrypointDerived ==
    rpc = "resolved" =>
        LET sc == package_info.start_command
            e == package_info.entrypoint_command
        IN /\ sc # <<>>
           /\ e = ProxyPrefix \o <<sc[1]>>
                  \o (IF Len(sc) > 1 THEN <<"--">> \o Tail(sc) ELSE <<>>)
           /\ Len(e) > 6 => e[7] = "--"

\* A plan whose command came from the fallback strategy and has an argument.
C17_Witness ==
    /\ rpc = "resolved"
    /\ InSeq(consulted, "fallback")
    /\ Len(package_info.start_command) = 3
    /\ package_info.entrypoint_command[7] = "--"
    /\ package_info.entrypoint_command[9] = package_info.start_command[3]

----------------------------------------------------------------------------
(* Claims about single helpers, checked under SpecUnit *)

Returned(fn) == upc = "returned" /\ unit.fn = fn

\* C16: _generate_entrypoint_command returns, for every command: prefix+[x]
\* for a one-token [x]; prefix+[x,"--",a1..an] for [x,a1..an] with the
\* arguments unchanged and in order; prefix+["python","-m","server"] for None.
C16_Synthesis ==
    Returned("_generate_entrypoint_command") =>
        LET c == unit.start_command
        IN /\ SubSeq(ret, 1, 5) = ProxyPrefix
           /\ c = <<>> => ret = ProxyPrefix \o <<"python", "-m", "server">>
           /\ Len(c) = 1 => (Len(ret) = 6 /\ ret[6] = c[1])
           /\ Len(c) >= 2 =>
                 /\ Len(ret) = Len(c) + 6
                 /\ ret[6] = c[1]
                 /\ ret[7] = "--"
                 /\ \A i \in 2..Len(c) : ret[i + 6] = c[i]

\* A command whose first argument is itself "--": both separators are kept.
C16_Witness ==
    /\ Returned("_generate_entrypoint_command")
    /\ unit.start_command = <<"x", "--", "a">>
    /\ ret = ProxyPrefix \o <<"x", "--", "--", "a">>

\* The commit lookup of a tag derivation did not give a hash.
LookupFailed(u) ==
    \/ Len(u.github_url) < 2
    \/ u.answer.status # 200
    \/ ~u.answer.has_sha

\* C18: tag derivation always returns a tag, and when the commit lookup fails
\* (exception, non-200 status, URL without owner/repo) the hash segment of the
\* tag is exactly "nocommit".
C18_FailedLookupGivesNocommit ==
    /\ (upc # "off" /\ unit.fn = "_generate_image_tag") => upc \in {"call", "returned"}
    /\ (Returned("_generate_image_tag") /\ LookupFailed(unit)) =>
          /\ Len(ret) > 9
          /\ SubSeq(ret, 1, 9) = S_nocommit \o <<"-">>

\* The request raised (status 0) for a URL with owner and repo.
C18_Witness ==
    /\ Returned("_generate_image_tag")
    /\ Len(unit.github_url) >= 2
    /\ unit.answer.status = 0
    /\ SubSeq(ret, 1, 8) = S_nocommit

HexDigits ==
    {"0", "1", "2", "3", "4", "5", "6", "7", "8", "9", "a", "b", "c", "d", "e", "f"}

DecDigits == {"0", "1", "2", "3", "4", "5", "6", "7", "8", "9"}

\* q reads YYYYMMDD-HHMMSS.
IsTimestamp(q) ==
    /\ Len(q) = 15
    /\ \A i \in 1..8 : q[i] \in DecDigits
    /\ q[9] = "-"
    /\ \A i \in 10..15 : q[i] \in DecDigits

RECURSIVE Flatten(_)
\* The concatenation of a sequence of sequences.
Flatten(qq) == IF qq = <<>> THEN <<>> ELSE qq[1] \o Flatten(Tail(qq))

IsServersBlock(b) == b.kind = "servers"

\* The server descriptors of a README file, in block-then-key order.
DescriptorsOf(f) ==
    IF f.present /\ f.readable
    THEN Flatten([i \in DOMAIN SelectSeq(f.blocks, IsServersBlock) |->
                     SelectSeq(f.blocks, IsServersBlock)[i].servers])
    ELSE <<>>

\* The server descriptors of the README files, in file-then-block-then-key order.
AllDescriptors(readmes) ==
    Flatten([k \in DOMAIN ReadmeFiles |-> DescriptorsOf(readmes[ReadmeFiles[k]])])

NotDocker(d) == d.has_command /\ d.command # "docker"

\* C20 (as claimed): the README strategy returns [command]+args of the first
\* server descriptor whose command is not "docker", in file, then code-block,
\* then server-key order, and None when there is no such descriptor.
C20_FirstNonDockerDescriptor ==
    Returned("_extract_start_command_from_readme") =>
        LET cands == SelectSeq(AllDescriptors(unit.readmes), NotDocker)
        IN /\ ret = IF cands = <<>> THEN <<>> ELSE DescriptorCommand(cands[1])
           /\ ret # <<>> => ret[1] # "docker"

\* C29 (as claimed): the README strategy never raises, whatever the README
\* files hold; it returns a command or None.
C29_ReadmeNeverRaises ==
    (upc # "off" /\ unit.fn = "_extract_start_command_from_readme") => upc # "raised"

\* The name of the directory a path leads to.
DirName(path) ==
    IF path[Len(path)] = "" THEN path[Len(path) - 1] ELSE path[Len(path)]

\* C28 (as claimed): the fallback strategy always returns a non-empty command:
\* python server.py, main.py or app.py for the first of these that exists, else
\* python -m <tree directory name> if __main__.py exists, else python f for a
\* top-level .py file f naming "mcp" or "server", else python server.py.
C28_FallbackByFilename ==
    Returned("_detect_fallback_start_command") =>
        LET fs == unit.files
        IN /\ ret # <<>>
           /\ IF "server.py" \in fs THEN ret = <<"python", "server.py">>
              ELSE IF "main.py" \in fs THEN ret = <<"python", "main.py">>
              ELSE IF "app.py" \in fs THEN ret = <<"python", "app.py">>
              ELSE IF "__main__.py" \in fs THEN ret = <<"python", "-m", DirName(unit.path)>>
              ELSE IF fs \cap KeywordPyFiles # {}
              THEN \E f \in fs \cap KeywordPyFiles : ret = <<"python", f>>
              ELSE ret = <<"python", "server.py">>

S_sse == <<"/", "s", "s", "e">>
S_mcp == <<"/", "m", "c", "p">>

\* C27: the SSE configuration is {"mcpServers": {<serviceName>: {"type":
\* "sse", "url": [<albUrl>/sse]}}} and the HTTP one has transportType "http"
\* and [<albUrl>/mcp]; an ALB URL with a trailing slash gives the url of the
\* same URL without it.
C27_ClientConfigs ==
    /\ Returned("generate_sse_example_configs") =>
          /\ ret.mcpServers.key = unit.service_name
          /\ ret.mcpServers.value.type = "sse"
          /\ Len(ret.mcpServers.value.url) = 1
          /\ unit.alb_url[Len(unit.alb_url)] # "/" =>
                ret.mcpServers.value.url[1] = unit.alb_url \o S_sse
          /\ ret.mcpServers.value.url =
                GenerateSseExampleConfigs(unit.service_name,
                                          unit.alb_url \o <<"/">>).mcpServers.value.url
    /\ Returned("generate_streamable_http_example_configs") =>
          /\ ret.mcpServers.key = unit.service_name
          /\ ret.mcpServers.value.transportType = "http"
          /\ Len(ret.mcpServers.value.url) = 1
          /\ unit.alb_url[Len(unit.alb_url)] # "/" =>
                ret.mcpServers.value.url[1] = unit.alb_url \o S_mcp
          /\ ret.mcpServers.value.url =
                GenerateStreamableHttpExampleConfigs(unit.service_name,
                                          unit.alb_url \o <<"/">>).mcpServers.value.url

\* An ALB URL ending in a slash: the url has a single slash before "sse".
C27_Witness ==
    /\ Returned("generate_sse_example_configs")
    /\ unit.alb_url = S_alb \o <<"/">>
    /\ ret.mcpServers.value.url = <<S_alb \o S_sse>>

----------------------------------------------------------------------------
(* More claims about resolution, checked under SpecResolve *)

\* C21: for a tree with a pyproject.toml, no README command and no override:
\* a project.scripts table gives the start command [its first key], otherwise
\* a project.entry-points console_scripts table gives [its first key], with
\* entrypoint prefix+[that key]; with neither shape, or a manifest that does
\* not parse, the manifest strategy yields nothing, resolution does not raise
\* and goes on to the fallback strategy.
C21_ManifestScript ==
    (/\ rpc # "start"
     /\ command_override = <<>>
     /\ tree.pyproject.present /\ tree.pyproject.readable
     /\ ExtractStartCommandFromReadme(tree) = <<>>)
    => LET p == tree.pyproject
           sc == package_info.start_command
           e == package_info.entrypoint_command
           hasScripts == p.parses /\ p.has_project /\ p.has_scripts
           hasConsole == p.parses /\ p.has_project /\ p.has_entry_points
                         /\ p.console_scripts # <<>>
       IN /\ rpc = "resolved"
          /\ InSeq(consulted, "pyproject")
          /\ (hasScripts /\ p.scripts # <<>>) =>
                (sc = <<p.scripts[1]>> /\ e = ProxyPrefix \o <<p.scripts[1]>>)
          /\ (~hasScripts /\ hasConsole) =>
                (sc = <<p.console_scripts[1]>>
                 /\ e = ProxyPrefix \o <<p.console_scripts[1]>>)
          /\ (~hasScripts /\ ~hasConsole) =>
                (InSeq(consulted, "fallback") /\ sc \in DetectFallbackStartCommand(tree))

\* [project.scripts] with foo as its first key and no README command.
C21_Witness ==
    /\ rpc = "resolved"
    /\ command_override = <<>>
    /\ ExtractStartCommandFromReadme(tree) = <<>>
    /\ tree.pyproject.present
    /\ Len(tree.pyproject.scripts) = 2
    /\ package_info.start_command = <<"foo">>
    /\ package_info.entrypoint_command = ProxyPrefix \o <<"foo">>

----------------------------------------------------------------------------
(* Claims about the build pipeline of a CLI run, checked under SpecCli *)

\* The steps of BuildCommand.execute that run inside the temporary directory.
InWorkspace == cpc \in {"fetch", "dockerfile", "tag", "build", "push"}

\* C23: a build invocation holds its temporary workspace from before the
\* fetch until it ends, and on every way out of the invocation (the push done
\* or skipped, or a failure of fetch, plan, image build or push) the
\* workspace is released; no workspace is held before or after.
C23_WorkspaceReleased ==
    /\ InWorkspace => workspace = "held"
    /\ ~InWorkspace => workspace # "held"
    /\ cpc \in {"deploy", "deploying", "done"} => workspace = "released"
    /\ (cpc = "crashed" /\ cliMessage \in {"Invalid GitHub URL format", "fetch failed",
                                         "dockerfile generation failed",
                                         "docker build failed", "push failed"})
          => workspace = "released"

\* The image build failed and the workspace is released.
C23_Witness ==
    /\ cpc = "crashed"
    /\ cliMessage = "docker build failed"
    /\ workspace = "released"

\* A push of this run that did not succeed.
PushFailed == \E i \in DOMAIN ecrLog : ecrLog[i].ans # "ok"

\* C22 (as claimed): the steps run in order, each after the previous one
\* completed: an image is tagged only after the fetch and the plan, pushed
\* only after it was built, and the stack is described, created or updated
\* only after the push; no stack call is made in a run whose fetch, plan,
\* image build or push failed.
C22_StrictlySequential ==
    /\ cpc \in {"load", "validate", "execute", "fetch", "dockerfile"}
          => (builtImage = NoImage /\ ecrLog = <<>> /\ log = <<>>)
    /\ cpc \in {"tag", "build"} => (ecrLog = <<>> /\ log = <<>>)
    /\ cpc = "push" => (builtImage # NoImage /\ log = <<>>)
    /\ ecrLog # <<>> => builtImage # NoImage
    /\ log # <<>> => (builtImage # NoImage /\ pushedImage = builtImage)
    /\ (cpc = "crashed" /\ cliMessage \in {"Invalid GitHub URL format", "fetch failed",
                                         "dockerfile generation failed",
                                         "docker build failed", "push failed"})
          => log = <<>>
    /\ PushFailed => log = <<>>

\* Whether a configuration enables deployment without meeting its
\* requirements.
Deficient(c) ==
    /\ c.has_deploy /\ c.deploy.enabled
    /\ \/ ~c.build.push_to_ecr
       \/ c.deploy.service_name = ""
       \/ c.deploy.cluster_name = ""
       \/ c.deploy.vpc_id = ""
       \/ Len(c.deploy.alb_subnet_ids) < 2
       \/ Len(c.deploy.ecs_subnet_ids) < 1

\* C24: with deployment enabled and push_to_ecr false, or a missing
\* service_name, cluster_name or vpc_id, or fewer than 2 ALB subnets, or fewer
\* than 1 ECS subnet, the run ends with an error and neither builds nor
\* deploys: no workspace, no build-time tag derivation, no image built or
\* pushed, no stack call.
C24_DeficientDeployRejected ==
    (cfg.has_build /\ Deficient(cfg))
    => /\ cpc \in {"load", "validate", "rejected", "crashed"}
       /\ cpc \in {"rejected", "crashed"} => cliMessage # None
       /\ workspace = "none"
       /\ \A i \in DOMAIN tagLog : tagLog[i].site # "build"
       /\ builtImage = NoImage
       /\ pushedImage = NoImage
       /\ ecrLog = <<>>
       /\ log = <<>>
       /\ calls = 0

\* Deployment enabled with a single ALB subnet: the run is rejected.
C24_Witness ==
    /\ cfg.has_build /\ cfg.has_deploy /\ cfg.deploy.enabled
    /\ cfg.build.push_to_ecr
    /\ Len(cfg.deploy.alb_subnet_ids) = 1
    /\ cpc = "rejected"
    /\ cliMessage = "Error: deploy.enabled requires at least 2 ALB subnet IDs for load balancer"

\* A repository name with a trailing ".git" removed and nothing else.
WithoutDotGit(q) ==
    IF Len(q) >= 4 /\ SubSeq(q, Len(q) - 3, Len(q)) = <<".", "g", "i", "t">>
    THEN SubSeq(q, 1, Len(q) - 4)
    ELSE q

\* C26 (as claimed): for a build configuration without an image section,
\* with push_to_ecr set or not, BuildConfig.image_name is the repository name
\* of github_url without a trailing ".git", and the image built is
\* <prefix>/<that name>:<tag>.
C26_ImageNameFromUrl ==
    (/\ cfg.has_build /\ ~cfg.build.image.present
     /\ Len(cfg.build.github_url) = 2
     /\ cpc \notin {"load", "crashed"})
    => /\ image_name(mcp_config.build) = WithoutDotGit(Last(cfg.build.github_url))
       /\ builtImage # NoImage =>
             Last(builtImage.path) = WithoutDotGit(Last(cfg.build.github_url))

\* C30: every image pushed in a CLI run is <ecr_repository>/<image_name>:<tag>
\* with a non-empty ecr_repository and a non-empty image name; no image under
\* mcp-local/ is pushed, and with push_to_ecr false nothing is pushed.
C30_OnlyRegistryImagesPushed ==
    cpc # "load" =>
       /\ \A i \in DOMAIN ecrLog :
             LET im == ecrLog[i].image
                 b == mcp_config.build
             IN /\ ecr_repository(b) # <<>>
                /\ image_name(b) # <<>>
                /\ im.path = ecr_repository(b) \o <<image_name(b)>>
                /\ im.path[1] # S_mcp_local
                /\ im = builtImage
                /\ im.tag # NoTag
       /\ pushedImage # NoImage => (ecrLog # <<>> /\ pushedImage = ecrLog[1].image)
       /\ ~mcp_config.build.push_to_ecr => (ecrLog = <<>> /\ pushedImage = NoImage)

\* An image was pushed to registry/team/foo.
C30_Witness ==
    /\ cpc \in {"deploy", "deploying", "done"}
    /\ Len(ecrLog) = 1
    /\ ecrLog[1].ans = "ok"
    /\ ecrLog[1].image.path = <<S_registry, S_team, S_foo>>
    /\ mcp_config.build.push_to_ecr

----------------------------------------------------------------------------
(* A claim about _push_to_ecr, checked under SpecUnit *)

\* C25: in a call of _push_to_ecr the repository is created, with scanOnPush
\* true and AES256 encryption, exactly when describe_repositories reported it
\* not found, and at most once; a creation precedes the push; the push comes
\* only after a successful docker login.
C25_CreateIffNotFound ==
    (unit.fn = "_push_to_ecr" /\ upc # "call")
    => /\ ret[1].op = "describe_repositories"
       /\ (\E i \in DOMAIN ret : ret[i].op = "create_repository")
             <=> ret[1].ans = "RepositoryNotFoundException"
       /\ \A i, j \in DOMAIN ret :
             (ret[i].op = "create_repository" /\ ret[j].op = "create_repository")
                => i = j
       /\ \A i \in DOMAIN ret :
             ret[i].op = "create_repository"
                => /\ ret[i].scanOnPush
                   /\ ret[i].encryptionType = "AES256"
                   /\ ret[i].repo = RepoName(unit.image_tag)
       /\ \A i, j \in DOMAIN ret :
             (ret[i].op = "create_repository" /\ ret[j].op = "push") => i < j
       /\ \A j \in DOMAIN ret :
             ret[j].op = "push"
                => \E i \in 1..(j - 1) : ret[i].op = "login" /\ ret[i].ans = "ok"

\* The repository was not found, was created, and the image was pushed.
C25_Witness ==
    /\ unit.fn = "_push_to_ecr"
    /\ upc = "returned"
    /\ ret[1].ans = "RepositoryNotFoundException"
    /\ ret[2].op = "create_repository" /\ ret[2].ans = "ok"
    /\ ret[Len(ret)].op = "push" /\ ret[Len(ret)].ans = "ok"

====
